---------------------------- MODULE Spec2Model ----------------------------
(***************************************************************************)
(* A model of the STAMINA truncating state-space builder.                  *)
(*                                                                         *)
(* Two classes are modelled:                                               *)
(*                                                                         *)
(*   Spec         stamina::StaminaModelBuilder (src/src/StaminaModel-      *)
(*                Builder.cpp): the breadth-first explorer buildMatrices   *)
(*                with its callback getOrAddStateIndex, shouldEnqueue and  *)
(*                the reachability map piMap.                              *)
(*   SpecBuilder  stamina::builder::StaminaModelBuilder (src/src/stamina/  *)
(*                builder/StaminaModelBuilder.cpp): the state index and    *)
(*                the absorbing-state set-up.                              *)
(*   SpecBuffer   the same class: the transition buffer, the perimeter     *)
(*                re-expansion and the flush.                              *)
(*                                                                         *)
(* Numbers.  Rates are counted in units of 1/RateDen and reachability      *)
(* estimates in units of 1/PiDen; PiDen is large enough for every product  *)
(* the explorer forms within the bounds to be exact, as it is in the       *)
(* program for such dyadic values.  A rate is a record [f, d]: f is the    *)
(* part a float holds, d the residue a double holds and a float drops.     *)
(***************************************************************************)
EXTENDS Integers, Sequences, FiniteSets, TLC

(* ------------------------------ bounds -------------------------------- *)

\* Number of compressed states the oracle knows.
NumStates == 3

\* Number of (successor, rate) pairs the oracle produces in all during one
\* pass; a state asked for after that has the empty behaviour.
MaxEdges == 3

\* Number of times buildMatrices is called on one explorer.
MaxRuns == 2

(* ------------------------------ numbers ------------------------------- *)

RECURSIVE Pow(_, _)
Pow(b, n) == IF n = 0 THEN 1 ELSE b * Pow(b, n - 1)

\* Rates are counted in quarters.
RateDen == 2 * 2

\* One expansion multiplies a mass by a rate at most twice in a row (a
\* self-loop first, another successor after it).
PiDen == Pow(RateDen, 2 * NumStates)

One == PiDen

\* The rates the oracle may produce: 2.0, and 0.25 plus a residue below float
\* precision (as 0.1 is no float).
Rates == { [f |-> 2 * RateDen, d |-> 0], [f |-> 1, d |-> 1] }

\* The thresholds a pass may run with: 0, 1/2 and 1.
Kappas == { 0, One \div 2, One }

States == 1 .. NumStates

Ids == 0 .. (NumStates - 1)

\* A value an uninitialised StateType member may hold besides a state id.
GarbageId == NumStates

(* ------------------------------ oracle -------------------------------- *)

RECURSIVE SeqRange(_)
SeqRange(s) == IF s = << >> THEN {} ELSE {Head(s)} \cup SeqRange(Tail(s))

Distinct(s) == \A i, j \in 1 .. Len(s) : i # j => s[i] # s[j]

OraclePairs == [s : States, r : Rates]

\* generator->expand: one choice, a non-empty list of at most n (successor,
\* rate) pairs with distinct successors.
Behaviors(n) ==
  { b \in UNION { [1 .. k -> OraclePairs] : k \in 1 .. n } :
      \A i, j \in 1 .. Len(b) : i # j => b[i].s # b[j].s }

\* generator->getInitialStates: the lists of initial states.
InitialStateLists == { << >>, << 1 >>, << 1, 2 >> }

(* --------------------------- float narrowing -------------------------- *)

\* float probability = stateProbabilityPair.second;
ToFloat(r) == [f |-> r.f, d |-> 0]

\* p * probability, p in units of 1/PiDen, probability a float.
TimesRate(p, r) == (p * r.f) \div RateDen

(* ====================================================================== *)
(* The explorer: stamina::StaminaModelBuilder                              *)
(* ====================================================================== *)

VARIABLES
  stateToId,            \* stateStorage.stateToId: compressed state -> id
  statesToExplore,      \* the deque of <<compressed state, id>>
  piMap,                \* id -> reachability estimate (a float)
  tSet,                 \* the terminal set the skip test reads
  tMap,                 \* the terminal set an expansion removes from
  stateMap,             \* read by shouldEnqueue and buildMatrices
  exploredStates,       \* ids recorded as explored
  currentState,         \* this->currentState
  initialStateIndices,  \* stateStorage.initialStateIndices
  matrix,               \* transitionMatrixBuilder: <<row, column, value>>
  currentRow,
  currentRowGroup,
  kappa,                \* Options::kappa
  errors,               \* what StaminaMessages::error has reported
  pc,                   \* "start", "explore", "done" or "fatal"
  oracleInit,           \* the oracle's list of initial states
  behaviorOf,           \* id -> the behaviour the oracle returned for it
  rowOf,                \* id -> the matrix row its expansion wrote
  history,              \* the ids pushed on and popped off the deque so far
  run,                  \* the number of the running call of buildMatrices
  last                  \* what the latest step of buildMatrices did

explorerVars ==
  << stateToId, statesToExplore, piMap, tSet, tMap, stateMap, exploredStates,
     currentState, initialStateIndices, matrix, currentRow, currentRowGroup,
     kappa, errors, pc, oracleInit, behaviorOf, rowOf, history, run, last >>

\* The builder (stamina::builder::StaminaModelBuilder).
VARIABLES
  builderStateToId,     \* stateStorage.stateToId of the builder
  absorbingWasSetUp,
  firstIteration,
  fresh,
  deadlockStateIndices, \* stateStorage.deadlockStateIndices
  stateRemapping,
  transitionsToAdd,     \* row -> list of [to, transition]
  flushed,              \* what the latest flush handed to addNextValue
  builderPc,            \* "run" or "fatal" (errorAndExit)
  isCtmc,
  buildResult,          \* what the latest call of build() returned and reported
  builderInitialStateIndices,  \* stateStorage.initialStateIndices of the builder
  builderStateMap,      \* stateMap: id -> the ProbabilityState record stored there
  builderStatesToExplore,  \* statesToExplore of the builder: ids
  lastCall              \* what the latest builder operation did

buildVars == << isCtmc, buildResult >>

remapVars == << builderInitialStateIndices, builderStateMap >>

queueVars == << builderStatesToExplore >>

builderVars ==
  << builderStateToId, absorbingWasSetUp, firstIteration, fresh,
     deadlockStateIndices, stateRemapping, transitionsToAdd, flushed,
     builderPc, buildVars, remapVars, queueVars, lastCall >>

\* The refinement and property members of the builder, and the options they
\* read and write.
VARIABLES
  localKappa,           \* a double: 2^-localKappa, or 0.0 (see KappaZero)
  optionsKappa,         \* Options::kappa, in the same encoding
  reduceKappa,          \* Options::reduce_kappa: the divisor 2^reduceKappa
  refinements,          \* calls of accumulateProbabilities so far
  propertyFormula,      \* "null" or the formula supplied
  propertyExpression,   \* "nullptr" or the expression held
  expressionManager,    \* "unset" or the manager of the modules file
  formulaMatchesExpression,
  lastControl           \* what the latest of these operations did

controlVars ==
  << localKappa, optionsKappa, reduceKappa, refinements, propertyFormula,
     propertyExpression, expressionManager, formulaMatchesExpression,
     lastControl >>

\* The queue of the priority builder (StaminaPriorityModelBuilder).
VARIABLES
  statePriorityQueue,   \* the heap array of the std::priority_queue: ids
  priorityPi,           \* id -> pi of its record, which the queue entries point to
  pushStamp,            \* id -> its place in the order of the pushes
  lastPriority          \* what the latest queue operation did

priorityVars == << statePriorityQueue, priorityPi, pushStamp, lastPriority >>

Empty == [x \in {} |-> 0]

Put(f, k, v) == [x \in (DOMAIN f) \cup {k} |-> IF x = k THEN v ELSE f[x]]

\* piMap.find(k) == piMap.end() -> piMap.insert({k, 0.0})
InsertIfAbsent(pi, k) == IF k \in DOMAIN pi THEN pi ELSE Put(pi, k, 0)

QueueIds(q) == { q[i][2] : i \in 1 .. Len(q) }

NoStep == [kind |-> "none"]

\* ProbabilityState::wasPutInTerminalQueue, the queue flag of a state's
\* record: false from the constructor on, and nothing assigns it.
wasPutInTerminalQueue(id) == FALSE

\* The ids of the states the explorer has registered.
RegisteredExplorerIds == { stateToId[s] : s \in DOMAIN stateToId }

\* The ids a list of callbacks pushed, from its log.
PushedIn(log) == { log[i].id : i \in { j \in 1 .. Len(log) : log[j].pushed } }

(* ---------------- the registry at the start of a pass ------------------ *)

\* The containers as the constructor leaves them: empty.
FreshRegistry == [piMap |-> Empty, tSet |-> {}, tMap |-> {}]

\* The registry as the controller leaves it at pass start: a dense array of
\* records, pi = 1/|init| on the initial states and 0 elsewhere, every
\* record terminal.
SeededRegistry(n) ==
  [ piMap |-> [id \in Ids |-> IF id < n THEN One \div n ELSE 0],
    tSet  |-> Ids,
    tMap  |-> Ids ]

(* ------------------------- shouldEnqueue ------------------------------- *)

\* The result and the piMap it leaves; err: the "Unexpected behavior" error.
shouldEnqueue(pi, cur, sm, es, previousState) ==
  IF previousState \notin DOMAIN pi
  THEN [ret |-> FALSE, piMap |-> Put(pi, previousState, 0), err |-> TRUE]
  ELSE LET pi2 == InsertIfAbsent(pi, cur)
       IN  IF pi2[previousState] = 0
           THEN [ret |-> TRUE, piMap |-> pi2, err |-> FALSE]
           ELSE [ret |-> ~(cur \in sm /\ cur \in es), piMap |-> pi2, err |-> FALSE]

(* ----------------------- getOrAddStateIndex ---------------------------- *)

\* The callback pushing at the front of the deque instead of the back.
getOrAddStateIndexPushFront(ctx, cur, sm, es, state) ==
  LET newIndex == Cardinality(DOMAIN ctx.stateToId)
      known == state \in DOMAIN ctx.stateToId
      actualIndex == IF known THEN ctx.stateToId[state] ELSE newIndex
      se == shouldEnqueue(ctx.piMap, cur, sm, es, actualIndex)
      push == actualIndex = newIndex /\ se.ret
  IN  [ stateToId |-> IF known THEN ctx.stateToId
                      ELSE Put(ctx.stateToId, state, newIndex),
        queue     |-> IF push THEN << << state, actualIndex >> >> \o ctx.queue
                      ELSE ctx.queue,
        piMap     |-> IF actualIndex = newIndex THEN se.piMap ELSE ctx.piMap,
        errors    |-> IF actualIndex = newIndex /\ se.err
                      THEN ctx.errors \cup {"UnexpectedBehavior"} ELSE ctx.errors,
        ids       |-> Append(ctx.ids, actualIndex),
        log       |-> Append(ctx.log,
                        [ id        |-> actualIndex,
                          wasNew    |-> ~known,
                          wasQueued |-> actualIndex \in QueueIds(ctx.queue),
                          pushed    |-> push ]) ]

\* The callback without its test actualIndex == newIndex: a state already
\* registered is pushed again.
getOrAddStateIndexAlwaysPush(ctx, cur, sm, es, state) ==
  LET newIndex == Cardinality(DOMAIN ctx.stateToId)
      known == state \in DOMAIN ctx.stateToId
      actualIndex == IF known THEN ctx.stateToId[state] ELSE newIndex
      se == shouldEnqueue(ctx.piMap, cur, sm, es, actualIndex)
  IN  [ stateToId |-> IF known THEN ctx.stateToId
                      ELSE Put(ctx.stateToId, state, newIndex),
        queue     |-> IF se.ret THEN Append(ctx.queue, << state, actualIndex >>)
                      ELSE ctx.queue,
        piMap     |-> se.piMap,
        errors    |-> IF se.err THEN ctx.errors \cup {"UnexpectedBehavior"}
                      ELSE ctx.errors,
        ids       |-> Append(ctx.ids, actualIndex),
        log       |-> Append(ctx.log,
                        [ id        |-> actualIndex,
                          wasNew    |-> ~known,
                          wasQueued |-> actualIndex \in QueueIds(ctx.queue),
                          pushed    |-> se.ret ]) ]

\* ctx: [stateToId, queue, piMap, errors, ids, log]; ids collects the
\* indices returned to the generator and log what each call did.
getOrAddStateIndex(ctx, cur, sm, es, state) ==
  LET newIndex == Cardinality(DOMAIN ctx.stateToId)
      known == state \in DOMAIN ctx.stateToId
      actualIndex == IF known THEN ctx.stateToId[state] ELSE newIndex
      index2 == IF known THEN ctx.stateToId ELSE Put(ctx.stateToId, state, newIndex)
      se == shouldEnqueue(ctx.piMap, cur, sm, es, actualIndex)
      push == actualIndex = newIndex /\ se.ret
  IN  [ stateToId |-> index2,
        queue     |-> IF push THEN Append(ctx.queue, << state, actualIndex >>)
                      ELSE ctx.queue,
        piMap     |-> IF actualIndex = newIndex THEN se.piMap ELSE ctx.piMap,
        errors    |-> IF actualIndex = newIndex /\ se.err
                      THEN ctx.errors \cup {"UnexpectedBehavior"} ELSE ctx.errors,
        ids       |-> Append(ctx.ids, actualIndex),
        log       |-> Append(ctx.log,
                        [ id        |-> actualIndex,
                          wasNew    |-> ~known,
                          wasQueued |-> actualIndex \in QueueIds(ctx.queue),
                          pushed    |-> push ]) ]

\* The generator asks for the index of every state of a list, in order.
RECURSIVE Callbacks(_, _, _, _, _)
Callbacks(ctx, cur, sm, es, states) ==
  IF states = << >> THEN ctx
  ELSE Callbacks(getOrAddStateIndex(ctx, cur, sm, es, Head(states)),
                 cur, sm, es, Tail(states))

StartCtx(q, pi) ==
  [ stateToId |-> stateToId, queue |-> q, piMap |-> pi, errors |-> errors,
    ids |-> << >>, log |-> << >> ]

(* --------------------------- buildMatrices ----------------------------- *)

\* Let the generator create all initial states.  The emptiness test is the
\* source's: it reports the error when the list is NOT empty.
GetInitialStates ==
  /\ UNCHANGED builderVars
  /\ UNCHANGED controlVars
  /\ UNCHANGED priorityVars
  /\ pc = "start"
  /\ LET ctx == Callbacks(StartCtx(statesToExplore, piMap), currentState,
                          stateMap, exploredStates, oracleInit)
     IN  /\ stateToId' = ctx.stateToId
         /\ statesToExplore' = ctx.queue
         /\ piMap' = ctx.piMap
         /\ initialStateIndices' = ctx.ids
         /\ errors' = IF ctx.ids # << >>
                      THEN ctx.errors \cup {"InitialStatesEmpty"} ELSE ctx.errors
         /\ history' = [history EXCEPT !.pushed = @ \cup PushedIn(ctx.log)]
         /\ last' = [kind |-> "init", log |-> ctx.log]
  /\ pc' = "explore"
  /\ UNCHANGED << tSet, tMap, stateMap, exploredStates, currentState, matrix,
                  currentRow, currentRowGroup, kappa, oracleInit, behaviorOf, rowOf,
                  run >>

\* The skip test with its comparison turned round.
ShouldSkipReversed(ts, pi, k, id) == id \in ts /\ pi[id] > k

\* Do not explore if state is terminal and its reachability probability is
\* less than kappa.
ShouldSkip(ts, pi, k, id) == id \in ts /\ pi[id] < k

\* The popped entry is terminal and below kappa: continue.
SkipTerminal ==
  /\ UNCHANGED builderVars
  /\ UNCHANGED controlVars
  /\ UNCHANGED priorityVars
  /\ pc = "explore"
  /\ statesToExplore # << >>
  /\ LET currentIndex == Head(statesToExplore)[2]
         pi1 == InsertIfAbsent(piMap, currentIndex)
     IN  /\ ShouldSkip(tSet, pi1, kappa, currentIndex)
         /\ currentState' = currentIndex
         /\ statesToExplore' = Tail(statesToExplore)
         /\ piMap' = pi1
         /\ history' = [history EXCEPT !.popped = @ \cup {currentIndex}]
         /\ last' = [ kind |-> "skip", id |-> currentIndex,
                      terminal |-> currentIndex \in tSet,
                      piAtPop |-> pi1[currentIndex] ]
  /\ UNCHANGED << stateToId, tSet, tMap, stateMap, exploredStates,
                  initialStateIndices, matrix, currentRow, currentRowGroup, kappa,
                  errors, pc, oracleInit, behaviorOf, rowOf, run >>

\* piMap[sPrime] += piMap[currentIndex] * probability
AddMass(pi, cur, sPrime, probability) ==
  [pi EXCEPT ![sPrime] = @ + TimesRate(pi[cur], probability)]

\* The value handed to addNextValue for an oracle rate.
MatrixValue(r) == ToFloat(r)

\* The loop over the pairs of the choice; acc: [piMap, exploredStates, matrix].
RECURSIVE AddChoice(_, _, _, _, _)
AddChoice(acc, cur, row, sm, pairs) ==
  IF pairs = << >> THEN acc
  ELSE LET sPrime == Head(pairs).id
           probability == ToFloat(Head(pairs).r)
           pi1 == InsertIfAbsent(acc.piMap, sPrime)
       IN  AddChoice(
             [ piMap |-> AddMass(pi1, cur, sPrime, probability),
               exploredStates |->
                 IF ~(sPrime \in sm /\ sPrime \in acc.exploredStates)
                 THEN acc.exploredStates \cup {sPrime} ELSE acc.exploredStates,
               matrix |-> Append(acc.matrix,
                                 << row, sPrime, MatrixValue(Head(pairs).r) >>) ],
             cur, row, sm, Tail(pairs))

\* The expansion forgetting to zero the expanded state.
KeepPi(pi, id) == pi

\* Set our current state's reachability probability to 0.
ResetPi(pi, id) == [pi EXCEPT ![id] = 0]

\* The popped entry is expanded: the generator is loaded with it and asked
\* for its behaviour, which calls getOrAddStateIndex on every successor.
ExpandState ==
  /\ UNCHANGED builderVars
  /\ UNCHANGED controlVars
  /\ UNCHANGED priorityVars
  /\ pc = "explore"
  /\ statesToExplore # << >>
  /\ \E behavior \in Behaviors(MaxEdges - Len(matrix)) :
       LET currentIndex == Head(statesToExplore)[2]
           pi1 == InsertIfAbsent(piMap, currentIndex)
           ctx == Callbacks(StartCtx(Tail(statesToExplore), pi1), currentIndex,
                            stateMap, exploredStates,
                            [i \in 1 .. Len(behavior) |-> behavior[i].s])
           pairs == [i \in 1 .. Len(behavior) |->
                       [id |-> ctx.ids[i], r |-> behavior[i].r]]
           shouldEnqueueAll == ctx.piMap[currentIndex] = 0
           acc == AddChoice([ piMap |-> ctx.piMap,
                              exploredStates |-> exploredStates,
                              matrix |-> matrix ],
                            currentIndex, currentRow, stateMap, pairs)
       IN  /\ ~ShouldSkip(tSet, pi1, kappa, currentIndex)
           /\ currentState' = currentIndex
           /\ stateToId' = ctx.stateToId
           /\ statesToExplore' = ctx.queue
           /\ errors' = ctx.errors
           /\ tMap' = IF ~shouldEnqueueAll /\ currentIndex \in tMap
                      THEN tMap \ {currentIndex} ELSE tMap
           /\ piMap' = ResetPi(acc.piMap, currentIndex)
           /\ exploredStates' = acc.exploredStates
           /\ matrix' = acc.matrix
           /\ currentRow' = currentRow + 1
           /\ currentRowGroup' = currentRowGroup + 1
           /\ behaviorOf' = Put(behaviorOf, currentIndex, pairs)
           /\ rowOf' = Put(rowOf, currentIndex, currentRow)
           /\ history' = [ pushed |-> history.pushed \cup PushedIn(ctx.log),
                           popped |-> history.popped \cup {currentIndex} ]
           /\ last' = [ kind |-> "expand", id |-> currentIndex,
                        terminal |-> currentIndex \in tSet,
                        piAtPop |-> pi1[currentIndex],
                        pairs |-> pairs,
                        piBefore |-> ctx.piMap,
                        log |-> ctx.log ]
  /\ UNCHANGED << tSet, stateMap, initialStateIndices, kappa, pc, oracleInit,
                  run >>

\* The behaviour is empty: errorExit ends the process.
AbortEmptyBehavior ==
  /\ UNCHANGED builderVars
  /\ UNCHANGED controlVars
  /\ UNCHANGED priorityVars
  /\ pc = "explore"
  /\ statesToExplore # << >>
  /\ LET currentIndex == Head(statesToExplore)[2]
         pi1 == InsertIfAbsent(piMap, currentIndex)
     IN  /\ ~ShouldSkip(tSet, pi1, kappa, currentIndex)
         /\ currentState' = currentIndex
         /\ statesToExplore' = Tail(statesToExplore)
         /\ piMap' = pi1
         /\ history' = [history EXCEPT !.popped = @ \cup {currentIndex}]
         /\ last' = [ kind |-> "abort", id |-> currentIndex,
                      terminal |-> currentIndex \in tSet,
                      piAtPop |-> pi1[currentIndex] ]
  /\ pc' = "fatal"
  /\ UNCHANGED << stateToId, tSet, tMap, stateMap, exploredStates,
                  initialStateIndices, matrix, currentRow, currentRowGroup, kappa,
                  errors, oracleInit, behaviorOf, rowOf, run >>

\* while (!statesToExplore.empty()) ends.
FinishPass ==
  /\ UNCHANGED builderVars
  /\ UNCHANGED controlVars
  /\ UNCHANGED priorityVars
  /\ pc = "explore"
  /\ statesToExplore = << >>
  /\ pc' = "done"
  /\ last' = NoStep
  /\ UNCHANGED << stateToId, statesToExplore, piMap, tSet, tMap, stateMap,
                  exploredStates, currentState, initialStateIndices, matrix,
                  currentRow, currentRowGroup, kappa, errors, oracleInit,
                  behaviorOf, rowOf, history, run >>

\* buildMatrices is called again on the same explorer, with the same kappa
\* and the same matrix builder; its row counters are locals and start at 0.
RunAgain ==
  /\ UNCHANGED builderVars
  /\ UNCHANGED controlVars
  /\ UNCHANGED priorityVars
  /\ pc = "done"
  /\ run < MaxRuns
  /\ run' = run + 1
  /\ pc' = "start"
  /\ currentRow' = 0
  /\ currentRowGroup' = 0
  /\ last' = NoStep
  /\ UNCHANGED << stateToId, statesToExplore, piMap, tSet, tMap, stateMap,
                  exploredStates, currentState, initialStateIndices, matrix,
                  kappa, errors, oracleInit, behaviorOf, rowOf, history >>

ExplorerInit ==
  /\ oracleInit \in InitialStateLists
  /\ kappa \in Kappas
  /\ currentState \in Ids \cup {GarbageId}
  /\ \E reg \in {FreshRegistry, SeededRegistry(Len(oracleInit))} :
       /\ piMap = reg.piMap
       /\ tSet = reg.tSet
       /\ tMap = reg.tMap
  /\ stateToId = Empty
  /\ statesToExplore = << >>
  /\ stateMap = {}
  /\ exploredStates = {}
  /\ initialStateIndices = << >>
  /\ matrix = << >>
  /\ currentRow = 0
  /\ currentRowGroup = 0
  /\ errors = {}
  /\ pc = "start"
  /\ behaviorOf = Empty
  /\ rowOf = Empty
  /\ history = [pushed |-> {}, popped |-> {}]
  /\ run = 1
  /\ last = NoStep

(* ====================================================================== *)
(* The builder: stamina::builder::StaminaModelBuilder                      *)
(* ====================================================================== *)

\* The compressed state whose "Absorbing" flag is set.
AbsorbingState == 0

\* Number of compressed states the builder's oracle knows.
NumBuilderStates == 2

OrdinaryStates == 1 .. NumBuilderStates

\* The compressed states a callback of the builder may be handed.
BuilderStates == OrdinaryStates \cup {AbsorbingState}

\* Number of edges the transition buffer holds at most.
MaxBuffered == 3

\* The rates of the edges handed to the builder: 0.25 and 2.0.
BuilderRates == { [f |-> 1, d |-> 0], [f |-> 2 * RateDen, d |-> 0] }

RateZero == [f |-> 0, d |-> 0]

RateOne == [f |-> RateDen, d |-> 0]

RatePlus(a, b) == [f |-> a.f + b.f, d |-> a.d + b.d]

RECURSIVE SumLen(_)
SumLen(rows) == IF rows = << >> THEN 0 ELSE Len(Head(rows)) + SumLen(Tail(rows))

Buffered == SumLen(transitionsToAdd)

Max(a, b) == IF a >= b THEN a ELSE b

(* --------------------- getOrAddStateIndex (builder) --------------------- *)

\* The registration with the next id taken one too high.
BuilderGetOrAddOffByOne(index, state) ==
  LET actualIndex == IF state \in DOMAIN index THEN index[state]
                     ELSE Cardinality(DOMAIN index) + 1
  IN  [ index |-> IF state \in DOMAIN index THEN index
                  ELSE Put(index, state, actualIndex),
        ret   |-> actualIndex ]

\* The registration without its lookup: every call allocates the next id.
BuilderGetOrAddNoLookup(index, state) ==
  [ index |-> Put(index, state, Cardinality(DOMAIN index)),
    ret   |-> Cardinality(DOMAIN index) ]

\* The index after the call and the id returned.
BuilderGetOrAdd(index, state) ==
  LET newIndex == Cardinality(DOMAIN index)
      actualIndex == IF state \in DOMAIN index THEN index[state] ELSE newIndex
  IN  [ index |-> IF state \in DOMAIN index THEN index
                  ELSE Put(index, state, actualIndex),
        ret   |-> actualIndex ]

GetOrAddStateIndex ==
  /\ UNCHANGED explorerVars
  /\ UNCHANGED controlVars
  /\ UNCHANGED priorityVars
  /\ UNCHANGED remapVars
  /\ UNCHANGED queueVars
  /\ UNCHANGED buildVars
  /\ builderPc = "run"
  /\ \E state \in BuilderStates :
       LET r == BuilderGetOrAdd(builderStateToId, state)
       IN  /\ builderStateToId' = r.index
           /\ lastCall' = [ op |-> "getOrAdd", state |-> state, ret |-> r.ret,
                            indexBefore |-> builderStateToId ]
  /\ UNCHANGED << absorbingWasSetUp, firstIteration, fresh, deadlockStateIndices,
                  stateRemapping, transitionsToAdd, flushed, builderPc >>

(* --------------------- getStateIndexOrAbsorbing ------------------------- *)

\* The perimeter callback answering an unknown state with the next free id,
\* as getOrAddStateIndex would.
getStateIndexOrAbsorbingNextId(index, state) ==
  IF state \in DOMAIN index THEN index[state] ELSE Cardinality(DOMAIN index)

getStateIndexOrAbsorbing(index, state) ==
  IF state \in DOMAIN index THEN index[state] ELSE 0

(* ------------------------ setUpAbsorbingState --------------------------- *)

\* stateToId.findOrAddAndGetBucket(absorbingState, 0): the id the state has,
\* or 0 after it was added under 0.
RegisterAbsorbing(index) ==
  IF AbsorbingState \in DOMAIN index
  THEN [index |-> index, ret |-> index[AbsorbingState]]
  ELSE [index |-> Put(index, AbsorbingState, 0), ret |-> 0]

\* gotVar: the generator has a boolean variable named "Absorbing".
SetUpAbsorbingState ==
  /\ UNCHANGED explorerVars
  /\ UNCHANGED controlVars
  /\ UNCHANGED priorityVars
  /\ UNCHANGED remapVars
  /\ UNCHANGED queueVars
  /\ UNCHANGED buildVars
  /\ builderPc = "run"
  /\ \E gotVar \in BOOLEAN :
       IF absorbingWasSetUp \/ ~firstIteration
       THEN /\ lastCall' = [ op |-> "setUp", done |-> FALSE,
                             afterReset |-> lastCall.op = "reset" ]
            /\ UNCHANGED << builderStateToId, absorbingWasSetUp, deadlockStateIndices,
                            stateRemapping, builderPc >>
       ELSE /\ stateRemapping' = Append(stateRemapping, 0)
            /\ IF ~gotVar
               THEN /\ builderPc' = "fatal"
                    /\ lastCall' = [ op |-> "setUp", done |-> FALSE,
                                     afterReset |-> lastCall.op = "reset" ]
                    /\ UNCHANGED << builderStateToId, absorbingWasSetUp,
                                    deadlockStateIndices >>
               ELSE LET r == RegisterAbsorbing(builderStateToId)
                    IN  /\ deadlockStateIndices' = Append(deadlockStateIndices, 0)
                        /\ builderStateToId' = r.index
                        /\ builderPc' = IF r.ret # 0 THEN "fatal" ELSE "run"
                        /\ absorbingWasSetUp' = (r.ret = 0)
                        /\ lastCall' = [ op |-> "setUp", done |-> r.ret = 0,
                                         ret |-> r.ret,
                                         afterReset |-> lastCall.op = "reset" ]
  /\ UNCHANGED << firstIteration, fresh, transitionsToAdd, flushed >>

(* --------------------------- createTransition --------------------------- *)

RECURSIVE Grow(_, _)
Grow(rows, n) == IF Len(rows) > n THEN rows ELSE Grow(Append(rows, << >>), n)

\* Rows are indexed from 0: row k is rows[k + 1].
createTransition(rows, from, to, probability) ==
  LET grown == Grow(rows, Max(from, to))
  IN  [grown EXCEPT ![from + 1] = Append(@, [to |-> to, transition |-> probability])]

\* The ids of the registered states other than the absorbing one.
OrdinaryIds(index) == { index[s] : s \in (DOMAIN index) \ {AbsorbingState} }

RegisteredIds(index) == { index[s] : s \in DOMAIN index }

\* An edge found by the exploration of a registered state.
CreateTransition ==
  /\ UNCHANGED explorerVars
  /\ UNCHANGED controlVars
  /\ UNCHANGED priorityVars
  /\ UNCHANGED remapVars
  /\ UNCHANGED queueVars
  /\ UNCHANGED buildVars
  /\ builderPc = "run"
  /\ Buffered < MaxBuffered
  /\ \E from \in OrdinaryIds(builderStateToId),
        to \in RegisteredIds(builderStateToId) \cup {0},
        rate \in BuilderRates :
       /\ transitionsToAdd' = createTransition(transitionsToAdd, from, to, rate)
       /\ lastCall' = [op |-> "create"]
  /\ UNCHANGED << builderStateToId, absorbingWasSetUp, firstIteration, fresh,
                  deadlockStateIndices, stateRemapping, flushed, builderPc >>

(* ------------------- connectTerminalStatesToAbsorbing ------------------- *)

\* The loop over a choice without its else branch: the rates of the
\* successors answered with 0 are not added up.
RECURSIVE ConnectChoiceNoSum(_, _, _, _, _)
ConnectChoiceNoSum(rows, index, stateId, pairs, totalRateToAbsorbing) ==
  IF pairs = << >>
  THEN createTransition(rows, stateId, 0, totalRateToAbsorbing)
  ELSE LET id == getStateIndexOrAbsorbing(index, Head(pairs).s)
       IN  IF id # 0
           THEN ConnectChoiceNoSum(createTransition(rows, stateId, id, Head(pairs).r),
                                   index, stateId, Tail(pairs), totalRateToAbsorbing)
           ELSE ConnectChoiceNoSum(rows, index, stateId, Tail(pairs),
                                   totalRateToAbsorbing)

\* One choice: the edges to known states as they come, then one edge to the
\* absorbing state with the rates of the others summed.
RECURSIVE ConnectChoice(_, _, _, _, _)
ConnectChoice(rows, index, stateId, pairs, totalRateToAbsorbing) ==
  IF pairs = << >>
  THEN createTransition(rows, stateId, 0, totalRateToAbsorbing)
  ELSE LET id == getStateIndexOrAbsorbing(index, Head(pairs).s)
       IN  IF id # 0
           THEN ConnectChoice(createTransition(rows, stateId, id, Head(pairs).r),
                              index, stateId, Tail(pairs), totalRateToAbsorbing)
           ELSE ConnectChoice(rows, index, stateId, Tail(pairs),
                              RatePlus(totalRateToAbsorbing, Head(pairs).r))

BuilderBehaviors(n) ==
  { b \in UNION { [1 .. k -> [s : OrdinaryStates, r : BuilderRates]] : k \in 0 .. n } :
      \A i, j \in 1 .. Len(b) : i # j => b[i].s # b[j].s }

\* The perimeter re-expansion of a registered state with the callback
\* terminalStateToIdCallback; an empty behaviour is a warning and a return.
ConnectTerminalStatesToAbsorbing ==
  /\ UNCHANGED explorerVars
  /\ UNCHANGED controlVars
  /\ UNCHANGED priorityVars
  /\ UNCHANGED remapVars
  /\ UNCHANGED queueVars
  /\ UNCHANGED buildVars
  /\ builderPc = "run"
  /\ Buffered < MaxBuffered
  /\ \E terminalState \in (DOMAIN builderStateToId) \ {AbsorbingState},
        behavior \in BuilderBehaviors(MaxBuffered - Buffered - 1) :
       LET stateId == builderStateToId[terminalState]
       IN  /\ transitionsToAdd' =
                IF behavior = << >> THEN transitionsToAdd
                ELSE ConnectChoice(transitionsToAdd, builderStateToId, stateId,
                                   behavior, RateZero)
           /\ lastCall' = [ op |-> "connect", stateId |-> stateId,
                            behavior |-> behavior ]
  /\ UNCHANGED << builderStateToId, absorbingWasSetUp, firstIteration, fresh,
                  deadlockStateIndices, stateRemapping, flushed, builderPc >>

(* ------------------------ flushToTransitionMatrix ----------------------- *)

RECURSIVE FlushRow(_, _)
FlushRow(row, infos) ==
  IF infos = << >> THEN << >>
  ELSE << << row, Head(infos).to, Head(infos).transition >> >>
         \o FlushRow(row, Tail(infos))

\* The flush without its rule for empty rows.
RECURSIVE FlushRowsNoSelfLoop(_, _)
FlushRowsNoSelfLoop(rows, row) ==
  IF row >= Len(rows) THEN << >>
  ELSE FlushRow(row, rows[row + 1]) \o FlushRowsNoSelfLoop(rows, row + 1)

\* The calls of addNextValue for the rows from `row` on, in order.
RECURSIVE FlushRows(_, _)
FlushRows(rows, row) ==
  IF row >= Len(rows) THEN << >>
  ELSE (IF rows[row + 1] = << >>
        THEN << << row, row, RateOne >> >>
        ELSE FlushRow(row, rows[row + 1]))
       \o FlushRows(rows, row + 1)

FlushToTransitionMatrix ==
  /\ UNCHANGED explorerVars
  /\ UNCHANGED controlVars
  /\ UNCHANGED priorityVars
  /\ UNCHANGED remapVars
  /\ UNCHANGED queueVars
  /\ UNCHANGED buildVars
  /\ builderPc = "run"
  /\ flushed' = FlushRows(transitionsToAdd, 0)
  /\ lastCall' = [op |-> "flush"]
  /\ UNCHANGED << builderStateToId, absorbingWasSetUp, firstIteration, fresh,
                  deadlockStateIndices, stateRemapping, transitionsToAdd,
                  builderPc >>

(* -------------------------------- build ---------------------------------- *)

\* What generator->getModelType() may report; "other" is any value the
\* switch does not name.
ModelTypes == {"CTMC", "DTMC", "MDP", "POMDP", "MA", "other"}

\* The outcome of build() for a model type; threw: buildModelComponents or
\* buildModelFromComponents raised a std::exception, ctmcFlag: isCtmc before.
build(modelType, threw, ctmcFlag) ==
  CASE modelType = "CTMC" ->
         [ isCtmc   |-> TRUE,
           returned |-> IF threw THEN "nullptr" ELSE "Ctmc",
           messages |-> IF threw THEN {"error"} ELSE {} ]
    [] modelType = "DTMC" ->
         [ isCtmc   |-> FALSE,
           returned |-> IF threw THEN "nullptr" ELSE "Dtmc",
           messages |-> IF threw THEN {"warning", "error"} ELSE {"warning"} ]
    [] OTHER ->
         [ isCtmc   |-> ctmcFlag,
           returned |-> "nullptr",
           messages |-> {"error"} ]

\* build(); the exploration buildModelComponents runs is the subclass's and
\* is left to the other actions.
Build ==
  /\ UNCHANGED explorerVars
  /\ UNCHANGED controlVars
  /\ UNCHANGED priorityVars
  /\ UNCHANGED remapVars
  /\ UNCHANGED queueVars
  /\ builderPc = "run"
  /\ \E modelType \in ModelTypes, threw \in BOOLEAN :
       LET r == build(modelType, threw /\ modelType \in {"CTMC", "DTMC"}, isCtmc)
       IN  /\ isCtmc' = r.isCtmc
           /\ buildResult' = [ modelType |-> modelType, returned |-> r.returned,
                               messages |-> r.messages ]
  /\ lastCall' = [op |-> "build"]
  /\ UNCHANGED << builderStateToId, absorbingWasSetUp, firstIteration, fresh,
                  deadlockStateIndices, stateRemapping, transitionsToAdd, flushed,
                  builderPc >>

(* --------------------------------- reset --------------------------------- *)

\* reset() without its test of `fresh`.
resetIgnoringFresh(isFresh, queue, wasSetUp) ==
  [statesToExplore |-> << >>, absorbingWasSetUp |-> FALSE]

\* The queue and the set-up flag reset() leaves: untouched on a fresh
\* builder, cleared otherwise.
reset(isFresh, queue, wasSetUp) ==
  IF isFresh
  THEN [statesToExplore |-> queue, absorbingWasSetUp |-> wasSetUp]
  ELSE [statesToExplore |-> << >>, absorbingWasSetUp |-> FALSE]

Reset ==
  /\ UNCHANGED explorerVars
  /\ UNCHANGED controlVars
  /\ UNCHANGED priorityVars
  /\ UNCHANGED remapVars
  /\ UNCHANGED buildVars
  /\ builderPc = "run"
  /\ LET r == reset(fresh, builderStatesToExplore, absorbingWasSetUp)
     IN  /\ builderStatesToExplore' = r.statesToExplore
         /\ absorbingWasSetUp' = r.absorbingWasSetUp
  /\ lastCall' = [ op |-> "reset", wasSetUp |-> absorbingWasSetUp,
                   indexBefore |-> builderStateToId,
                   stateMapBefore |-> builderStateMap,
                   bufferBefore |-> transitionsToAdd,
                   kappaBefore |-> localKappa ]
  /\ UNCHANGED << builderStateToId, firstIteration, fresh, deadlockStateIndices,
                  stateRemapping, transitionsToAdd, flushed, builderPc >>

(* ------------------------------ remapStates ----------------------------- *)

\* std::sort of a list of ids.
RECURSIVE InsertSorted(_, _)
InsertSorted(s, x) ==
  IF s = << >> THEN << x >>
  ELSE IF x <= Head(s) THEN << x >> \o s
       ELSE << Head(s) >> \o InsertSorted(Tail(s), x)

RECURSIVE SortIds(_)
SortIds(s) == IF s = << >> THEN << >> ELSE InsertSorted(SortIds(Tail(s)), Head(s))

\* remapping[id]; the vector is indexed from 0.
RemapId(remapping, id) == remapping[id + 1]

\* transitionMatrixBuilder.replaceColumns(remapping, 0): the column of every
\* entry is replaced, its row is not.
ReplaceColumns(m, remapping) ==
  [ i \in 1 .. Len(m) |-> << m[i][1], RemapId(remapping, m[i][2]), m[i][3] >> ]

\* The remapping applied to the matrix columns, the initial-state indices,
\* the index store and the generator (which keeps no ids of its own here).
\* A vector shorter than the number of states is a warning only, and the
\* reads beyond its end are not modelled: the call is made with a vector that
\* covers every id.
RemapStates ==
  /\ UNCHANGED explorerVars
  /\ UNCHANGED controlVars
  /\ UNCHANGED priorityVars
  /\ UNCHANGED buildVars
  /\ UNCHANGED queueVars
  /\ builderPc = "run"
  /\ \A id \in RegisteredIds(builderStateToId)
               \cup SeqRange(builderInitialStateIndices)
               \cup { flushed[i][2] : i \in 1 .. Len(flushed) } :
       id + 1 <= Len(stateRemapping)
  /\ flushed' = ReplaceColumns(flushed, stateRemapping)
  /\ builderInitialStateIndices' =
       SortIds([ i \in 1 .. Len(builderInitialStateIndices) |->
                   RemapId(stateRemapping, builderInitialStateIndices[i]) ])
  /\ builderStateToId' =
       [ s \in DOMAIN builderStateToId |->
           RemapId(stateRemapping, builderStateToId[s]) ]
  /\ lastCall' = [ op |-> "remap", indexBefore |-> builderStateToId,
                   stateMapBefore |-> builderStateMap,
                   bufferBefore |-> transitionsToAdd ]
  /\ UNCHANGED << absorbingWasSetUp, firstIteration, fresh, deadlockStateIndices,
                  stateRemapping, transitionsToAdd, builderPc, builderStateMap >>

(* ------------------ accumulateProbabilities and kappa ------------------- *)

\* A double that is a power of two, 2^-e, is written e; the smallest positive
\* double is 2^-1074 and the smallest normal one 2^-1022.
DoubleMinExp == 1074

DoubleMinNormalExp == 1022

\* 0.0, written as the exponent below the smallest positive double.
KappaZero == DoubleMinExp + 1

\* Number of refinement steps of one build.
MaxRefinements == 3

\* The values Options::kappa may have at construction: 1, 2^-10 and the
\* smallest positive double.
InitialKappas == { 0, 10, DoubleMinExp }

\* The values Options::reduce_kappa may have: 2 and 2^537.
ReduceKappas == { 1, 537 }

\* localKappa /= Options::reduce_kappa done twice.
DivideTwice(x, divisor) ==
  IF x = KappaZero THEN KappaZero
  ELSE IF x + 2 * divisor > DoubleMinExp THEN KappaZero ELSE x + 2 * divisor

\* x / divisor in double arithmetic: a quotient below half the smallest
\* positive double, or exactly half of it, is rounded to 0.0.
Divide(x, divisor) ==
  IF x = KappaZero THEN KappaZero
  ELSE IF x + divisor > DoubleMinExp THEN KappaZero ELSE x + divisor

\* numberTerminal: 0 from the constructor on.
numberTerminal == 0

\* numberTerminal * localKappa.
TotalProbability(x) == IF numberTerminal = 0 THEN KappaZero ELSE x

AccumulateProbabilities ==
  /\ UNCHANGED explorerVars
  /\ UNCHANGED builderVars
  /\ UNCHANGED priorityVars
  /\ refinements < MaxRefinements
  /\ refinements' = refinements + 1
  /\ localKappa' = Divide(localKappa, reduceKappa)
  /\ lastControl' = [ op |-> "accumulate", ret |-> TotalProbability(localKappa),
                      kappaBefore |-> localKappa ]
  /\ UNCHANGED << optionsKappa, reduceKappa, propertyFormula, propertyExpression,
                  expressionManager, formulaMatchesExpression >>

SetLocalKappaToGlobal ==
  /\ UNCHANGED explorerVars
  /\ UNCHANGED builderVars
  /\ UNCHANGED priorityVars
  /\ optionsKappa' = localKappa
  /\ lastControl' = [op |-> "setKappa"]
  /\ UNCHANGED << localKappa, reduceKappa, refinements, propertyFormula,
                  propertyExpression, expressionManager,
                  formulaMatchesExpression >>

(* --------------------------- property formula --------------------------- *)

\* The formulas a caller may supply.
Formulas == {"F1", "F2"}

SetPropertyFormula ==
  /\ UNCHANGED explorerVars
  /\ UNCHANGED builderVars
  /\ UNCHANGED priorityVars
  /\ \E formula \in Formulas :
       /\ formulaMatchesExpression' = FALSE
       /\ propertyFormula' = formula
       /\ expressionManager' = "manager"
       /\ lastControl' = [op |-> "setFormula", formula |-> formula]
  /\ UNCHANGED << localKappa, optionsKappa, reduceKappa, refinements,
                  propertyExpression >>

\* The expression is built into the local pExpression, which the return
\* destroys; the member propertyExpression is not assigned.
LoadPropertyExpressionFromFormula ==
  /\ UNCHANGED explorerVars
  /\ UNCHANGED builderVars
  /\ UNCHANGED priorityVars
  /\ IF formulaMatchesExpression
     THEN /\ lastControl' = [op |-> "loadProperty", built |-> FALSE]
          /\ UNCHANGED formulaMatchesExpression
     ELSE /\ formulaMatchesExpression' = TRUE
          /\ lastControl' = [op |-> "loadProperty", built |-> TRUE]
  /\ UNCHANGED << localKappa, optionsKappa, reduceKappa, refinements,
                  propertyFormula, propertyExpression, expressionManager >>

(* ====================================================================== *)
(* The priority queue: stamina::builder::StaminaPriorityModelBuilder       *)
(* ====================================================================== *)

\* Number of states pushed on the priority queue in all.
NumPriorityStates == 4

PriorityIds == 1 .. NumPriorityStates

\* The values of pi a record has when its state is pushed, and the value up
\* to which later updates raise it.
PriorityPis == { 1, 2 }

MaxPriorityPi == 2

\* ProbabilityStatePairComparison: first.first->pi < second.first->pi, read
\* through the pointers when the comparison is made.
ProbabilityStatePairComparison(pi, first, second) == pi[first] < pi[second]

\* The element of a heap array at a position counted from 0.
At(h, i) == h[i + 1]

\* std::push_heap's loop: the hole moves up while its parent compares less
\* than the value, which is then stored in the hole.
RECURSIVE PushHeap(_, _, _, _)
PushHeap(h, holeIndex, value, pi) ==
  LET parent == (holeIndex - 1) \div 2
  IN  IF holeIndex > 0 /\ ProbabilityStatePairComparison(pi, At(h, parent), value)
      THEN PushHeap([h EXCEPT ![holeIndex + 1] = At(h, parent)], parent, value, pi)
      ELSE [h EXCEPT ![holeIndex + 1] = value]

\* std::pop_heap's first loop: the hole moves down to the larger child, the
\* right one when the two do not compare.
RECURSIVE SiftDown(_, _, _, _)
SiftDown(h, holeIndex, len, pi) ==
  IF holeIndex < (len - 1) \div 2
  THEN LET right == 2 * (holeIndex + 1)
           child == IF ProbabilityStatePairComparison(pi, At(h, right),
                                                      At(h, right - 1))
                    THEN right - 1 ELSE right
       IN  SiftDown([h EXCEPT ![holeIndex + 1] = At(h, child)], child, len, pi)
  ELSE [h |-> h, holeIndex |-> holeIndex]

\* The rest of the adjustment: a last left child without a sibling, then the
\* value is pushed up from the hole.
AdjustHeap(h, len, value, pi) ==
  LET down == SiftDown(h, 0, len, pi)
      only == len % 2 = 0 /\ down.holeIndex = (len - 2) \div 2
      left == 2 * (down.holeIndex + 1) - 1
      h2 == IF only THEN [down.h EXCEPT ![down.holeIndex + 1] = At(down.h, left)]
            ELSE down.h
      hole2 == IF only THEN left ELSE down.holeIndex
  IN  PushHeap(h2, hole2, value, pi)

\* priority_queue::push: push_back, then push_heap.
QueuePush(h, value, pi) == PushHeap(Append(h, value), Len(h), value, pi)

\* priority_queue::pop: pop_heap, then pop_back.
QueuePop(h, pi) ==
  IF Len(h) <= 1 THEN << >>
  ELSE AdjustHeap(SubSeq(h, 1, Len(h) - 1), Len(h) - 1, h[Len(h)], pi)

\* A newly discovered state is pushed with the pi of its record.
PriorityPush ==
  /\ UNCHANGED explorerVars
  /\ UNCHANGED builderVars
  /\ UNCHANGED controlVars
  /\ \E id \in PriorityIds \ DOMAIN priorityPi, pi \in PriorityPis :
       /\ priorityPi' = Put(priorityPi, id, pi)
       /\ pushStamp' = Put(pushStamp, id, Cardinality(DOMAIN pushStamp))
       /\ statePriorityQueue' = QueuePush(statePriorityQueue, id, priorityPi')
       /\ lastPriority' = [op |-> "push", id |-> id]

\* The expansion of another state adds mass to a state that waits in the
\* queue.
PriorityAddPi ==
  /\ UNCHANGED explorerVars
  /\ UNCHANGED builderVars
  /\ UNCHANGED controlVars
  /\ \E id \in SeqRange(statePriorityQueue) :
       /\ priorityPi[id] < MaxPriorityPi
       /\ priorityPi' = [priorityPi EXCEPT ![id] = @ + 1]
       /\ lastPriority' = [op |-> "addPi", id |-> id]
  /\ UNCHANGED << statePriorityQueue, pushStamp >>

\* The state at the top of the queue is taken off for expansion.
PriorityPop ==
  /\ UNCHANGED explorerVars
  /\ UNCHANGED builderVars
  /\ UNCHANGED controlVars
  /\ statePriorityQueue # << >>
  /\ statePriorityQueue' = QueuePop(statePriorityQueue, priorityPi)
  /\ lastPriority' = [ op |-> "pop", id |-> statePriorityQueue[1],
                       queueBefore |-> SeqRange(statePriorityQueue) ]
  /\ UNCHANGED << priorityPi, pushStamp >>

PriorityInit ==
  /\ statePriorityQueue = << >>
  /\ priorityPi = Empty
  /\ pushStamp = Empty
  /\ lastPriority = [op |-> "none"]

\* The members as the constructor leaves them, Options::kappa copied into
\* localKappa.
ControlInit ==
  /\ optionsKappa \in InitialKappas
  /\ localKappa = optionsKappa
  /\ reduceKappa \in ReduceKappas
  /\ refinements = 0
  /\ propertyFormula = "null"
  /\ propertyExpression = "nullptr"
  /\ expressionManager = "unset"
  /\ formulaMatchesExpression = TRUE
  /\ lastControl = [op |-> "none"]

\* The same members with one choice made for the options.
ControlIdle == ControlInit /\ optionsKappa = 0 /\ reduceKappa = 1

BuilderInit ==
  /\ builderInitialStateIndices = << >>
  /\ builderStatesToExplore = << >>
  /\ builderStateMap = Empty
  /\ isCtmc \in BOOLEAN
  /\ buildResult = [modelType |-> "none", returned |-> "none", messages |-> {}]
  /\ builderStateToId = Empty
  /\ absorbingWasSetUp = FALSE
  /\ firstIteration = TRUE
  /\ fresh = TRUE
  /\ deadlockStateIndices = << >>
  /\ stateRemapping = << >>
  /\ transitionsToAdd = << >>
  /\ flushed = << >>
  /\ builderPc = "run"
  /\ lastCall = [op |-> "none"]

(* ====================================================================== *)
(* Specifications                                                          *)
(* ====================================================================== *)

vars == << explorerVars, builderVars, controlVars, priorityVars >>

\* The explorer before buildMatrices is called, with one choice made for
\* everything a pass leaves open.
ExplorerIdle ==
  /\ oracleInit = << >>
  /\ kappa = 0
  /\ currentState = 0
  /\ piMap = Empty
  /\ tSet = {}
  /\ tMap = {}
  /\ stateToId = Empty
  /\ statesToExplore = << >>
  /\ stateMap = {}
  /\ exploredStates = {}
  /\ initialStateIndices = << >>
  /\ matrix = << >>
  /\ currentRow = 0
  /\ currentRowGroup = 0
  /\ errors = {}
  /\ pc = "start"
  /\ behaviorOf = Empty
  /\ rowOf = Empty
  /\ history = [pushed |-> {}, popped |-> {}]
  /\ run = 1
  /\ last = NoStep

\* The builder left alone while the explorer runs.
BuilderIdle == BuilderInit /\ isCtmc = TRUE

Init == ExplorerInit /\ BuilderIdle /\ ControlIdle /\ PriorityInit

Next ==
  \/ GetInitialStates
  \/ SkipTerminal
  \/ ExpandState
  \/ AbortEmptyBehavior
  \/ FinishPass
  \/ RunAgain

\* A pass of the explorer.
Spec == Init /\ [][Next]_vars

NextPass ==
  \/ GetInitialStates
  \/ SkipTerminal
  \/ ExpandState
  \/ AbortEmptyBehavior
  \/ FinishPass

\* A pass over a registry that lets states be enqueued, from one initial
\* state and with any kappa.
InitPass ==
  /\ Init
  /\ currentState = GarbageId
  /\ oracleInit = << 1 >>
  /\ piMap # Empty

\* One call of buildMatrices, which is sequential code: as long as a step of
\* it can be taken, one is taken.
SpecPass == InitPass /\ [][NextPass]_vars /\ WF_vars(NextPass)

InitBuilder == ExplorerIdle /\ BuilderInit /\ ControlIdle /\ PriorityInit

NextBuilder ==
  \/ GetOrAddStateIndex
  \/ SetUpAbsorbingState
  \/ Build
  \/ Reset

\* The state index of the builder: registrations, the absorbing-state set-up
\* and calls of build(), in any order.
SpecBuilder == InitBuilder /\ [][NextBuilder]_vars

\* The index after the set-up on a new builder and the registration of the
\* ordinary states 1 .. n, in that order.
RECURSIVE IndexAfterSetUp(_)
IndexAfterSetUp(n) ==
  IF n = 0 THEN RegisterAbsorbing(Empty).index
  ELSE BuilderGetOrAdd(IndexAfterSetUp(n - 1), n).index

\* The registry after the exploration registered the ordinary states 1 .. n:
\* one record per id, the state registered last still terminal.
RegistryAfter(n) ==
  [ id \in 0 .. n |-> [index |-> id, terminal |-> (id = n)] ]

\* A builder whose absorbing state is set up and whose exploration has
\* registered the ordinary states 1 .. n, state 1 being the initial state;
\* remapping: the vector the exploration left in stateRemapping.
BufferStart(n, remapping) ==
  /\ ExplorerIdle
  /\ ControlIdle
  /\ PriorityInit
  /\ builderStateToId = IndexAfterSetUp(n)
  /\ builderInitialStateIndices = << 1 >>
  /\ builderStateMap = RegistryAfter(n)
  /\ builderStatesToExplore = << >>
  /\ isCtmc = TRUE
  /\ buildResult = [modelType |-> "none", returned |-> "none", messages |-> {}]
  /\ absorbingWasSetUp = TRUE
  /\ firstIteration = TRUE
  /\ fresh = TRUE
  /\ deadlockStateIndices = << 0 >>
  /\ stateRemapping = remapping
  /\ transitionsToAdd = << >>
  /\ flushed = << >>
  /\ builderPc = "run"
  /\ lastCall = [op |-> "none"]

InitBuffer == \E n \in 1 .. NumBuilderStates : BufferStart(n, << 0 >>)

NextBuffer ==
  \/ CreateTransition
  \/ ConnectTerminalStatesToAbsorbing
  \/ FlushToTransitionMatrix

\* The transition buffer of a builder whose absorbing state is set up: edge
\* insertions, perimeter re-expansions and flushes, in any order.
SpecBuffer == InitBuffer /\ [][NextBuffer]_vars

InitControl == ExplorerIdle /\ BuilderIdle /\ ControlInit /\ PriorityInit

InitPriority == ExplorerIdle /\ BuilderIdle /\ ControlIdle /\ PriorityInit

NextPriority ==
  \/ PriorityPush
  \/ PriorityAddPi
  \/ PriorityPop

\* The queue of the priority builder: pushes, updates of pi and pops, in any
\* order.
SpecPriority == InitPriority /\ [][NextPriority]_vars

NextControl ==
  \/ AccumulateProbabilities
  \/ SetLocalKappaToGlobal
  \/ SetPropertyFormula
  \/ LoadPropertyExpressionFromFormula

\* The refinement of kappa and the property formula of a builder.
SpecControl == InitControl /\ [][NextControl]_vars

\* The values of pi a record may hold, in quarters: 0, 0.25 and 0.5.
PiQuarters == { 0, 1, 2 }

\* The registries an exploration may leave for the ordinary states 1 and 2:
\* one record per id, each of the two terminal or not and with any pi; the
\* record of the absorbing state is not terminal and has no mass.
RegistriesWithPi ==
  { [ id \in 0 .. 2 |->
        [ index |-> id,
          terminal |-> (id # 0 /\ term[id]),
          pi |-> IF id = 0 THEN 0 ELSE mass[id] ] ] :
    term \in [1 .. 2 -> BOOLEAN], mass \in [1 .. 2 -> PiQuarters] }

\* The refinement called on a builder whose exploration has left a registry.
InitAccumulate ==
  /\ ExplorerIdle
  /\ ControlInit
  /\ PriorityInit
  /\ builderStateToId = IndexAfterSetUp(2)
  /\ builderInitialStateIndices = << 1 >>
  /\ builderStateMap \in RegistriesWithPi
  /\ builderStatesToExplore = << >>
  /\ isCtmc = TRUE
  /\ buildResult = [modelType |-> "none", returned |-> "none", messages |-> {}]
  /\ absorbingWasSetUp = TRUE
  /\ firstIteration = TRUE
  /\ fresh = TRUE
  /\ deadlockStateIndices = << 0 >>
  /\ stateRemapping = << 0 >>
  /\ transitionsToAdd = << >>
  /\ flushed = << >>
  /\ builderPc = "run"
  /\ lastCall = [op |-> "none"]

NextAccumulate ==
  \/ AccumulateProbabilities
  \/ SetLocalKappaToGlobal

SpecAccumulate == InitAccumulate /\ [][NextAccumulate]_vars

\* The renumberings the exploration may leave in stateRemapping for the ids
\* 0 .. n: the identity, and the ordinary ids in reverse order; 0 stays 0.
Remappings(n) ==
  { [ i \in 1 .. (n + 1) |-> i - 1 ],
    [ i \in 1 .. (n + 1) |-> IF i = 1 THEN 0 ELSE n + 2 - i ] }

InitRemap ==
  \E n \in 1 .. NumBuilderStates :
    \E remapping \in Remappings(n) : BufferStart(n, remapping)

NextRemap ==
  \/ CreateTransition
  \/ FlushToTransitionMatrix
  \/ RemapStates

\* The buffer and the matrix of a builder whose exploration left a
\* renumbering: edge insertions, flushes and calls of remapStates.
SpecRemap == InitRemap /\ [][NextRemap]_vars


(* ====================================================================== *)
(* Properties of the explorer                                              *)
(* ====================================================================== *)

\* piMap[id] as operator[] reads it: 0.0 for an id not yet in the map.
PiOf(pi, id) == IF id \in DOMAIN pi THEN pi[id] ELSE 0

PoppedNext == Head(statesToExplore)[2]

C1_SkipStep ==
  ( /\ pc = "explore"
    /\ statesToExplore # << >>
    /\ PoppedNext \in tSet
    /\ PiOf(piMap, PoppedNext) < kappa )
  => ( /\ behaviorOf' = behaviorOf
       /\ matrix' = matrix
       /\ pc' = pc
       /\ tSet' = tSet
       /\ tMap' = tMap )

\* C1.  When the state at the front of the exploration queue is terminal and
\* its pi is strictly below kappa, the step that pops it does not consult the
\* oracle (no behaviour is recorded, the pass does not end on an empty
\* behaviour), writes no edge to the matrix and leaves the terminal sets as
\* they are, so the state is still terminal afterwards.
C1_SkippedStateIsLeftAlone == [][C1_SkipStep]_vars

\* A terminal state below kappa has just been popped and skipped.
C1_Witness ==
  /\ last.kind = "skip"
  /\ last.terminal
  /\ last.piAtPop < kappa
  /\ last.id \in tSet

InitialIds == SeqRange(initialStateIndices)

\* The triples <<id, mass, ids passed>> of the paths of at most n recorded
\* oracle edges that start in an initial state and pass no state twice; the
\* mass is the product of the rates of the path, times the share 1/|init| of
\* the initial state it starts in, in units of 1/PiDen.
RECURSIVE PathMasses(_)
PathMasses(n) ==
  IF n = 0
  THEN { << id, One \div Cardinality(InitialIds), {id} >> : id \in InitialIds }
  ELSE LET prev == PathMasses(n - 1)
       IN  prev \cup
           UNION { { << behaviorOf[p[1]][i].id,
                        (p[2] * behaviorOf[p[1]][i].r.f) \div RateDen,
                        p[3] \cup {behaviorOf[p[1]][i].id} >> :
                     i \in { j \in 1 .. Len(behaviorOf[p[1]]) :
                               behaviorOf[p[1]][j].id \notin p[3] } } :
                   p \in { q \in prev : q[1] \in DOMAIN behaviorOf } }

\* C2.  At the end of a pass that reported no unregistered state, every state
\* reachable from an initial state along a path of oracle edges that passes
\* no state twice and whose product of rates, times the initial state's share
\* of the initial mass, is at least kappa has been expanded.
C2_AboveKappaIsExpanded ==
  (pc = "done" /\ "UnexpectedBehavior" \notin errors)
  => \A p \in PathMasses(MaxEdges) : p[2] >= kappa => p[1] \in DOMAIN behaviorOf

\* C3.  Every reachability estimate lies between 0 and 1.
C3_PiWithinUnitInterval ==
  \A id \in DOMAIN piMap : piMap[id] >= 0 /\ piMap[id] <= One

RECURSIVE TotalRate(_)
TotalRate(pairs) ==
  IF pairs = << >> THEN 0 ELSE Head(pairs).r.f + TotalRate(Tail(pairs))

RECURSIVE RateTo(_, _)
RateTo(pairs, id) ==
  IF pairs = << >> THEN 0
  ELSE (IF Head(pairs).id = id THEN Head(pairs).r.f ELSE 0) + RateTo(Tail(pairs), id)

\* C4.  After the expansion of s with mass p, s itself is zeroed and the pi of
\* every other state has grown by exactly p * r / totalRate(s), r its rate
\* among the successors of s and 0 for a state that is no successor.
C4_MassIsSharedByNormalisedRate ==
  last.kind = "expand"
  => /\ piMap[last.id] = 0
     /\ \A id \in (DOMAIN piMap) \ {last.id} :
          (piMap[id] - PiOf(last.piBefore, id)) * TotalRate(last.pairs)
            = last.piAtPop * RateTo(last.pairs, id)

RowEntries(m, row) == SelectSeq(m, LAMBDA e : e[1] = row)

\* C5.  For every expanded state, the entries of its matrix row are exactly
\* the (successor, rate) pairs the oracle produced for it, rates unchanged.
C5_RowIsTheOracleBehavior ==
  \A id \in DOMAIN behaviorOf :
    RowEntries(matrix, rowOf[id])
      = [ i \in 1 .. Len(behaviorOf[id]) |->
            << rowOf[id], behaviorOf[id][i].id, behaviorOf[id][i].r >> ]

\* A registered state counts as terminal while it is in both terminal sets
\* and the oracle was never consulted for it.
StillTerminal(id) == id \in tSet /\ id \in tMap /\ id \notin DOMAIN behaviorOf

\* C6.  During an expansion a successor is pushed if and only if it has no
\* live queue entry and is newly discovered or terminal; in particular every
\* newly discovered state is pushed.
C6_PushedIffNewOrTerminal ==
  last.kind = "expand"
  => \A i \in 1 .. Len(last.log) :
       LET e == last.log[i]
       IN  /\ e.pushed <=> (~e.wasQueued /\ (e.wasNew \/ StillTerminal(e.id)))
           /\ e.wasNew => e.pushed

C8_RowZeroIsTheSelfLoop ==
  lastCall.op = "flush" => RowEntries(flushed, 0) = << << 0, 0, RateOne >> >>

\* C9.  After a set-up that completed, the absorbing state has id 0 and no
\* other registered state has id 0; a set-up whose registration of the
\* absorbing state yields another id than 0 ends fatally.
C9_AbsorbingAloneAtZero ==
  lastCall.op = "setUp"
  => /\ lastCall.done
        => /\ AbsorbingState \in DOMAIN builderStateToId
           /\ builderStateToId[AbsorbingState] = 0
           /\ \A s \in (DOMAIN builderStateToId) \ {AbsorbingState} :
                builderStateToId[s] # 0
     /\ ("ret" \in DOMAIN lastCall /\ lastCall.ret # 0) => builderPc = "fatal"

OneToOne(index) ==
  \A s, t \in DOMAIN index : index[s] = index[t] => s = t

\* C10.  While only getOrAddStateIndex has added to the index, the index is
\* one-to-one; a call for a state already present returns the id it had and
\* leaves the index as it was, a call for a new state allocates the next id,
\* and the only state registered under the id returned is the state asked for.
C10_IndexIsOneToOne ==
  ~absorbingWasSetUp
  => /\ OneToOne(builderStateToId)
     /\ lastCall.op = "getOrAdd"
        => LET before == lastCall.indexBefore
           IN  /\ lastCall.state \in DOMAIN before
                  => /\ lastCall.ret = before[lastCall.state]
                     /\ builderStateToId = before
               /\ lastCall.state \notin DOMAIN before
                  => /\ lastCall.ret = Cardinality(DOMAIN before)
                     /\ DOMAIN builderStateToId = (DOMAIN before) \cup {lastCall.state}
               /\ { t \in DOMAIN builderStateToId :
                      builderStateToId[t] = lastCall.ret } = {lastCall.state}

\* A state already registered, among several, has just been asked for again.
C10_Witness ==
  /\ ~absorbingWasSetUp
  /\ lastCall.op = "getOrAdd"
  /\ lastCall.state \in DOMAIN lastCall.indexBefore
  /\ Cardinality(DOMAIN builderStateToId) >= 2


C11_Step ==
  (~absorbingWasSetUp /\ ~absorbingWasSetUp')
  => /\ \A s \in DOMAIN builderStateToId :
          /\ s \in DOMAIN builderStateToId'
          /\ builderStateToId'[s] = builderStateToId[s]
     /\ \A s \in (DOMAIN builderStateToId') \ (DOMAIN builderStateToId) :
          /\ builderStateToId'[s] = Cardinality(DOMAIN builderStateToId)
          /\ \A a \in DOMAIN builderStateToId :
               builderStateToId'[a] < builderStateToId'[s]
     /\ lastCall'.op = "getOrAdd"
        => lastCall'.ret = builderStateToId'[lastCall'.state]

\* C11.  While only getOrAddStateIndex adds to the index, no step changes the
\* id of a registered state, a newly registered state receives the number of
\* states stored before it, which is above the id of every state registered
\* earlier, and the id a call returns is the one the index holds for its state.
C11_IdsFollowDiscoveryOrder == [][C11_Step]_vars

\* A new state has just been registered after another one.
C11_Witness ==
  /\ ~absorbingWasSetUp
  /\ lastCall.op = "getOrAdd"
  /\ lastCall.state \notin DOMAIN lastCall.indexBefore
  /\ DOMAIN lastCall.indexBefore # {}
  /\ lastCall.ret = Cardinality(DOMAIN lastCall.indexBefore)


\* The edges a behaviour gives to its registered successors, in order.
RECURSIVE KnownEdges(_, _)
KnownEdges(index, pairs) ==
  IF pairs = << >> THEN << >>
  ELSE (IF Head(pairs).s \in DOMAIN index
        THEN << [to |-> index[Head(pairs).s], transition |-> Head(pairs).r] >>
        ELSE << >>)
       \o KnownEdges(index, Tail(pairs))

\* The rates a behaviour gives to its unregistered successors, summed.
RECURSIVE UnknownRate(_, _)
UnknownRate(index, pairs) ==
  IF pairs = << >> THEN RateZero
  ELSE RatePlus(IF Head(pairs).s \in DOMAIN index THEN RateZero ELSE Head(pairs).r,
                UnknownRate(index, Tail(pairs)))

BufferRow(rows, row) == IF row + 1 <= Len(rows) THEN rows[row + 1] ELSE << >>

C12_Step ==
  ( /\ lastCall'.op = "connect"
    /\ lastCall'.behavior # << >>
    /\ transitionsToAdd' # transitionsToAdd )
  => /\ builderStateToId' = builderStateToId
     /\ deadlockStateIndices' = deadlockStateIndices
     /\ stateRemapping' = stateRemapping
     /\ BufferRow(transitionsToAdd', lastCall'.stateId)
          = BufferRow(transitionsToAdd, lastCall'.stateId)
              \o KnownEdges(builderStateToId, lastCall'.behavior)
              \o << [ to |-> 0,
                      transition |-> UnknownRate(builderStateToId,
                                                 lastCall'.behavior) ] >>

\* C12.  In a perimeter re-expansion the callback getStateIndexOrAbsorbing
\* answers every registered successor with its id and every unregistered one
\* with 0: the edges buffered for the state go to the ids of the registered
\* successors, and the rates of the unregistered ones go to id 0; the index,
\* the deadlock list and the remapping are left as they were.
C12_PerimeterCallbackOnlyLooksUp == [][C12_Step]_vars

\* A perimeter re-expansion has met a registered and an unregistered
\* successor.
C12_Witness ==
  /\ lastCall.op = "connect"
  /\ \E i, j \in 1 .. Len(lastCall.behavior) :
       /\ lastCall.behavior[i].s \in DOMAIN builderStateToId
       /\ lastCall.behavior[j].s \notin DOMAIN builderStateToId


\* C13.  What a flush hands to the matrix is sorted by row and, within a row,
\* by column.
C13_FlushedSortedByRowThenColumn ==
  lastCall.op = "flush"
  => \A i, j \in 1 .. Len(flushed) :
       i < j => \/ flushed[i][1] < flushed[j][1]
                \/ /\ flushed[i][1] = flushed[j][1]
                   /\ flushed[i][2] <= flushed[j][2]

\* The rates buffered in a row for one target, summed.
RECURSIVE RateSumTo(_, _)
RateSumTo(infos, to) ==
  IF infos = << >> THEN RateZero
  ELSE RatePlus(IF Head(infos).to = to THEN Head(infos).transition ELSE RateZero,
                RateSumTo(Tail(infos), to))

\* C14.  For every pair (from, to) with buffered edges, what a flush hands to
\* the matrix holds exactly one entry for the pair, with the sum of the
\* buffered rates.
C14_FlushedMergesDuplicates ==
  lastCall.op = "flush"
  => \A row \in 0 .. (Len(transitionsToAdd) - 1) :
       \A k \in 1 .. Len(BufferRow(transitionsToAdd, row)) :
         LET to == BufferRow(transitionsToAdd, row)[k].to
         IN  SelectSeq(flushed, LAMBDA e : e[1] = row /\ e[2] = to)
               = << << row, to, RateSumTo(BufferRow(transitionsToAdd, row), to) >> >>

\* C15.  In what a flush hands to the matrix, a row of the buffer that holds
\* no edge is exactly the self-loop (row, row) with rate 1, and a row that
\* holds edges is exactly those edges, with no self-loop added.
C15_EmptyRowsBecomeSelfLoops ==
  lastCall.op = "flush"
  => \A row \in 0 .. (Len(transitionsToAdd) - 1) :
       LET infos == BufferRow(transitionsToAdd, row)
       IN  IF infos = << >>
           THEN RowEntries(flushed, row) = << << row, row, RateOne >> >>
           ELSE RowEntries(flushed, row)
                  = [ k \in 1 .. Len(infos) |->
                        << row, infos[k].to, infos[k].transition >> ]

\* A flush has met a row that holds edges and a row above row 0 that exists
\* only as the target of an edge.
C15_Witness ==
  /\ lastCall.op = "flush"
  /\ \E row \in 1 .. (Len(transitionsToAdd) - 1) :
       /\ BufferRow(transitionsToAdd, row) = << >>
       /\ \E from \in 1 .. (Len(transitionsToAdd) - 1) :
            \E k \in 1 .. Len(BufferRow(transitionsToAdd, from)) :
              BufferRow(transitionsToAdd, from)[k].to = row
  /\ RowEntries(flushed, 0) = << << 0, 0, RateOne >> >>


\* C16.  When the oracle returns the empty behaviour for a popped state, a
\* self-loop with rate 1 is written for the state, the state is no longer
\* terminal, no error ends the pass and the exploration goes on.
C16_EmptyBehaviorIsDeadlock ==
  last.kind = "abort"
  => /\ pc = "explore"
     /\ \E i \in 1 .. Len(matrix) :
          matrix[i][2] = last.id /\ matrix[i][3] = RateOne
     /\ last.id \notin tMap

\* C17.  build() returns a model only for the model type CTMC; for every
\* other model type it reports an error and returns no model.
C17_OnlyCtmcIsBuilt ==
  /\ buildResult.returned \notin {"none", "nullptr"}
       => buildResult.modelType = "CTMC"
  /\ buildResult.modelType \in ModelTypes \ {"CTMC"}
       => /\ buildResult.returned = "nullptr"
          /\ "error" \in buildResult.messages


\* C18.  Once the initial states have been asked for, the no-initial-states
\* error has been reported if and only if the oracle's list of initial states
\* is empty.
C18_ErrorIffNoInitialStates ==
  pc # "start"
  => ("InitialStatesEmpty" \in errors <=> initialStateIndices = << >>)

\* C19.  Once an id missing from the probability map has been met, the pass
\* has ended fatally and the map holds no entry for any registered id (the
\* condition arises only in a pass that began with the empty map).
C19_UnregisteredIdIsFatal ==
  "UnexpectedBehavior" \in errors
  => /\ pc = "fatal"
     /\ RegisteredExplorerIds \cap DOMAIN piMap = {}

\* C20.  States leave the queue in the order they entered it: of two expanded
\* states the one with the smaller id was expanded first, the ids waiting in
\* the queue ascend from front to back, and every id already popped is below
\* every id still waiting.
C20_ExpandedInIdOrder ==
  /\ \A a, b \in DOMAIN rowOf : a < b => rowOf[a] < rowOf[b]
  /\ \A i, j \in 1 .. Len(statesToExplore) :
       i < j => statesToExplore[i][2] < statesToExplore[j][2]
  /\ \A a \in history.popped, b \in QueueIds(statesToExplore) : a < b

\* Three states have been expanded in one pass.
C20_Witness ==
  /\ pc = "done"
  /\ Cardinality(DOMAIN rowOf) >= 3
  /\ \A a, b \in DOMAIN rowOf : a < b => rowOf[a] < rowOf[b]


\* C30.  Right after the expansion of a state its pi is 0, also when one of
\* its own edges leads back to it, and the expansion has lowered the pi of no
\* other state: mass that reaches an expanded state later is added to the 0
\* its expansion left.
C30_ExpandedStateIsZeroed ==
  last.kind = "expand"
  => /\ piMap[last.id] = 0
     /\ \A id \in (DOMAIN piMap) \ {last.id} :
          piMap[id] >= PiOf(last.piBefore, id)

\* A state with positive mass and an edge to itself has just been expanded.
C30_SelfLoopWitness ==
  /\ last.kind = "expand"
  /\ last.piAtPop > 0
  /\ \E i \in 1 .. Len(last.pairs) : last.pairs[i].id = last.id
  /\ piMap[last.id] = 0


\* The ids the recorded behaviours of a set of states lead to.
SuccessorIds(ids) ==
  UNION { { behaviorOf[id][i].id : i \in 1 .. Len(behaviorOf[id]) } :
          id \in ids \cap DOMAIN behaviorOf }

\* C23.  In a pass with kappa = 1 only initial states are expanded, whatever
\* the rates, and every successor of an initial state that is not initial
\* itself stays in the terminal sets.
C23_KappaOneExpandsOnlyInitialStates ==
  kappa = One
  => /\ DOMAIN behaviorOf \subseteq InitialIds
     /\ \A id \in SuccessorIds(InitialIds) \ InitialIds :
          id \in tSet /\ id \in tMap

\* C24.  A pass with kappa = 0 that ends normally and met no unregistered id
\* has expanded every registered state, has written no edge into id 0, and
\* the row of every expanded state holds exactly the oracle's pairs with
\* their rates.
C24_KappaZeroIsExact ==
  (pc = "done" /\ kappa = 0 /\ "UnexpectedBehavior" \notin errors)
  => /\ RegisteredExplorerIds \subseteq DOMAIN behaviorOf
     /\ \A i \in 1 .. Len(matrix) : matrix[i][2] # 0
     /\ \A id \in DOMAIN behaviorOf :
          RowEntries(matrix, rowOf[id])
            = [ i \in 1 .. Len(behaviorOf[id]) |->
                  << rowOf[id], behaviorOf[id][i].id, behaviorOf[id][i].r >> ]

\* C27.  Right after the initial states have been asked for, before the first
\* pop, pi is 1/|init| on every initial state and 0 on every other state.
C27_InitialMassIsShared ==
  (last.kind = "init" /\ oracleInit # << >>)
  => \A id \in RegisteredExplorerIds \cup DOMAIN piMap :
       PiOf(piMap, id) = IF id \in InitialIds
                         THEN One \div Cardinality(InitialIds) ELSE 0


C25_Step ==
  run' >= 2
  => /\ stateToId' = stateToId
     /\ statesToExplore' = statesToExplore
     /\ piMap' = piMap
     /\ tSet' = tSet
     /\ tMap' = tMap
     /\ matrix' = matrix
     /\ behaviorOf' = behaviorOf
     /\ rowOf' = rowOf
     /\ history' = history
     /\ last'.kind \notin {"expand", "skip", "abort"}

\* C25.  No step of a second call of buildMatrices on the same explorer, with
\* the same kappa and no reset, registers a state, pushes or pops a state,
\* consults the oracle for a behaviour, writes an edge or changes a pi or a
\* terminal set.
C25_SecondRunIsNoOp == [][C25_Step]_vars

\* A second call has run to its end on an explorer whose first call expanded
\* two states.
C25_Witness ==
  /\ run = 2
  /\ pc = "done"
  /\ Cardinality(DOMAIN behaviorOf) >= 2
  /\ initialStateIndices # << >>


RECURSIVE RateSum(_)
RateSum(infos) ==
  IF infos = << >> THEN RateZero
  ELSE RatePlus(Head(infos).transition, RateSum(Tail(infos)))

RECURSIVE BehaviorRate(_)
BehaviorRate(pairs) ==
  IF pairs = << >> THEN RateZero ELSE RatePlus(Head(pairs).r, BehaviorRate(Tail(pairs)))

\* What a step appended to a row of the buffer.
AddedToRow(row) ==
  SubSeq(BufferRow(transitionsToAdd', row),
         Len(BufferRow(transitionsToAdd, row)) + 1,
         Len(BufferRow(transitionsToAdd', row)))

C29_Step ==
  lastCall'.op = "connect"
  => LET t == lastCall'.stateId
         b == lastCall'.behavior
         added == AddedToRow(t)
         known == { i \in 1 .. Len(b) :
                      /\ b[i].s \in DOMAIN builderStateToId
                      /\ builderStateToId[b[i].s] # 0 }
     IN  /\ builderStateToId' = builderStateToId
         /\ \A row \in 0 .. (Len(transitionsToAdd) - 1) :
              row # t => BufferRow(transitionsToAdd', row)
                           = BufferRow(transitionsToAdd, row)
         /\ BufferRow(transitionsToAdd, t)
              = SubSeq(BufferRow(transitionsToAdd', t), 1,
                       Len(BufferRow(transitionsToAdd, t)))
         /\ RateSum(added) = BehaviorRate(b)
         /\ b # << >>
            => /\ Len(added) = Cardinality(known) + 1
               /\ \A i \in known :
                    \E k \in 1 .. Len(added) :
                      added[k] = [ to |-> builderStateToId[b[i].s],
                                   transition |-> b[i].r ]
               /\ Cardinality({ k \in 1 .. Len(added) : added[k].to = 0 }) = 1
               /\ RateSumTo(added, 0)
                    = BehaviorRate(SelectSeq(b, LAMBDA p :
                        \/ p.s \notin DOMAIN builderStateToId
                        \/ builderStateToId[p.s] = 0))

\* C29.  A perimeter re-expansion of a state t appends to row t of the buffer,
\* for the oracle's choice, one edge with the oracle's rate for every
\* successor registered under a non-zero id and exactly one edge to id 0
\* carrying the summed rates of the other successors; the rates appended sum
\* to the oracle's total rate of t; nothing is appended for the empty
\* behaviour; no other row changes and no state is registered.
C29_PerimeterEdgesSplitTheRate == [][C29_Step]_vars

\* A perimeter re-expansion has buffered an edge to a registered state and an
\* edge to id 0 with a positive rate.
C29_Witness ==
  /\ lastCall.op = "connect"
  /\ Len(lastCall.behavior) = 2
  /\ LET row == BufferRow(transitionsToAdd, lastCall.stateId)
     IN  /\ Len(row) >= 2
         /\ row[Len(row)].to = 0
         /\ row[Len(row)].transition # RateZero
         /\ row[Len(row) - 1].to # 0


\* C28.  After remapStates the stores agree on the new id of every registered
\* state: the index store maps the state to the remapped id, the initial-state
\* indices are the remapped ids of the initial states, the registry holds the
\* state's record under the remapped id, and every buffered edge has moved
\* with its source and its target to the remapped ids.
C28_RemapIsAppliedEverywhere ==
  lastCall.op = "remap"
  => LET before == lastCall.indexBefore
         f(id) == RemapId(stateRemapping, id)
     IN  /\ \A s \in DOMAIN before : builderStateToId[s] = f(before[s])
         /\ SeqRange(builderInitialStateIndices) = { builderStateToId[1] }
         /\ \A id \in DOMAIN lastCall.stateMapBefore :
              /\ f(id) \in DOMAIN builderStateMap
              /\ builderStateMap[f(id)]
                   = [ index |-> f(id),
                       terminal |-> lastCall.stateMapBefore[id].terminal ]
         /\ \A row \in 0 .. (Len(lastCall.bufferBefore) - 1) :
              BufferRow(transitionsToAdd, f(row))
                = [ k \in 1 .. Len(BufferRow(lastCall.bufferBefore, row)) |->
                      [ to |-> f(BufferRow(lastCall.bufferBefore, row)[k].to),
                        transition |->
                          BufferRow(lastCall.bufferBefore, row)[k].transition ] ]


(* ====================================================================== *)
(* Properties of the refinement and the property formula                   *)
(* ====================================================================== *)

\* 2^-a < 2^-b, 0.0 being below every positive double.
KappaLess(a, b) == a > b

KappaPositive(x) == x # KappaZero

C22_Frame ==
  /\ optionsKappa' = optionsKappa
  /\ reduceKappa' = reduceKappa
  /\ propertyFormula' = propertyFormula
  /\ propertyExpression' = propertyExpression
  /\ expressionManager' = expressionManager
  /\ formulaMatchesExpression' = formulaMatchesExpression
  /\ builderVars' = builderVars

C22_StepAsStated ==
  (refinements' = refinements + 1 /\ KappaPositive(localKappa))
  => /\ C22_Frame
     /\ KappaPositive(localKappa')
     /\ KappaLess(localKappa', localKappa)

C22_Step ==
  refinements' = refinements + 1
  => /\ C22_Frame
     /\ ( /\ KappaPositive(localKappa)
          /\ localKappa + reduceKappa <= DoubleMinNormalExp )
        => /\ localKappa' = localKappa + reduceKappa
           /\ KappaPositive(localKappa')
           /\ KappaLess(localKappa', localKappa)
     /\ ~KappaLess(localKappa, localKappa')

C26_LoadedExpressionIsHeld ==
  ( /\ lastControl.op = "loadProperty"
    /\ propertyFormula \in Formulas
    /\ formulaMatchesExpression )
  => propertyExpression # "nullptr"


(* ====================================================================== *)
(* Properties of the priority queue                                        *)
(* ====================================================================== *)

\* C21.  The state a pop takes off the priority queue has a pi that no state
\* in the queue at that moment exceeds, and it was pushed before every other
\* queued state of the same pi.
C21_PopIsMaxPiThenOldest ==
  lastPriority.op = "pop"
  => \A other \in lastPriority.queueBefore \ {lastPriority.id} :
       /\ priorityPi[other] <= priorityPi[lastPriority.id]
       /\ priorityPi[other] = priorityPi[lastPriority.id]
            => pushStamp[lastPriority.id] < pushStamp[other]


(* ====================================================================== *)
(* Further properties of the explorer                                      *)
(* ====================================================================== *)

\* C31.  A state the oracle has been asked about is in neither terminal set
\* from then on, whatever its pi was when it was popped.
C31_ExpandedStateIsNonTerminal ==
  \A id \in DOMAIN behaviorOf : id \notin tSet /\ id \notin tMap

C32_Step ==
  Len(matrix') > Len(matrix)
  => /\ currentState' \notin DOMAIN behaviorOf
     /\ DOMAIN behaviorOf' = (DOMAIN behaviorOf) \cup {currentState'}
     /\ currentState' \notin QueueIds(statesToExplore')

\* C32.  The oracle is asked for the behaviour of a state at most once: every
\* expansion is of a state that has no recorded behaviour yet, and it leaves
\* the expanded state off the queue, also when one of its edges or an edge of
\* a later expansion leads back to it.
C32_ExpandedAtMostOnce == [][C32_Step]_vars

\* An expansion has just added mass to a state that was expanded before it
\* and is not the expanded state itself; that state is not on the queue.
C32_Witness ==
  /\ last.kind = "expand"
  /\ \E i \in 1 .. Len(last.pairs) :
       LET id == last.pairs[i].id
       IN  /\ id # last.id
           /\ id \in DOMAIN behaviorOf
           /\ piMap[id] > 0
           /\ id \notin QueueIds(statesToExplore)

\* C36.  The row the edges of an expanded state were written into has the
\* state's id as its index.
C36_RowIndexIsTheStateId ==
  \A id \in DOMAIN rowOf : rowOf[id] = id

C39_Step ==
  (pc = "explore" /\ statesToExplore # << >>)
  => /\ currentState' = Head(statesToExplore)[2]
     /\ currentState' \notin history.popped
     /\ currentState' \in RegisteredExplorerIds
     /\ history'.popped = history.popped \cup {currentState'}

C34_FlushDrainsTheBuffer ==
  lastCall.op = "flush" => Buffered = 0

\* C37.  Every edge in the transition buffer has a rate above 0, the edge to
\* the absorbing state of a perimeter re-expansion included.
C37_BufferedRatesArePositive ==
  \A row \in 1 .. Len(transitionsToAdd) :
    \A i \in 1 .. Len(transitionsToAdd[row]) :
      transitionsToAdd[row][i].transition # RateZero

\* C35.  When reset() has returned, the exploration queue is empty and the
\* set-up flag is false, and the index store, the state records, the
\* transition buffer and kappa are as they were before the call.
C35_ResetClearsQueueAndFlag ==
  lastCall.op = "reset"
  => /\ builderStatesToExplore = << >>
     /\ ~absorbingWasSetUp
     /\ builderStateToId = lastCall.indexBefore
     /\ builderStateMap = lastCall.stateMapBefore
     /\ transitionsToAdd = lastCall.bufferBefore
     /\ localKappa = lastCall.kappaBefore

\* The number of entries of a list that are the id 0.
ZeroEntries(s) == Cardinality({ i \in 1 .. Len(s) : s[i] = 0 })

RECURSIVE TerminalPi(_, _)
TerminalPi(map, ids) ==
  IF ids = {} THEN 0
  ELSE LET id == CHOOSE x \in ids : TRUE
       IN  (IF map[id].terminal THEN map[id].pi ELSE 0)
           + TerminalPi(map, ids \ {id})

\* A double written as an exponent is the given number of quarters.
IsQuarters(x, q) ==
  IF x = KappaZero THEN q = 0 ELSE x <= 2 /\ q = Pow(2, 2 - x)

\* C33.  The value accumulateProbabilities returns is the sum of pi over the
\* records that are terminal when it is called.
C33_ReturnsTerminalMass ==
  lastControl.op = "accumulate"
  => IsQuarters(lastControl.ret, TerminalPi(builderStateMap, DOMAIN builderStateMap))


====
